---- MODULE Spec2Model ----
(***************************************************************************)
(* SlimCode: the validation / minification core of SlimCodeApp and the     *)
(* React state machine around it (src/unnamed/part_000).                   *)
(*                                                                         *)
(* A text is a sequence of characters, each character a one-character      *)
(* string.  One extra element, BigRun, stands for a run of 1024 * 1024     *)
(* letters "x"; every regular expression of the source treats such a run   *)
(* as it treats one letter (not whitespace, not punctuation), so a text    *)
(* holding it behaves as the text with the run written out.                *)
(***************************************************************************)
EXTENDS Integers, Sequences, FiniteSets, TLC

(* ----------------------------- bounds --------------------------------- *)

\* longest text enumerated exhaustively for the core functions
MaxLen == 4
\* FileReader loads that may be pending at once
MaxReaders == 1

(* --------------------------- characters -------------------------------- *)

BigRun == "x*1048576"

\* the members of the regex class \s that the model's texts use
Whitespace == {" ", "\n", "\t"}

\* characters the regex atom . does not match
LineTerminators == {"\n"}

\* new Blob([s]).size of a one-character string: its UTF-8 length
ByteLen(c) ==
  IF c = BigRun THEN 1024 * 1024
  ELSE IF c \in {"é", "ü"} THEN 2
  ELSE 1

RECURSIVE BlobSize(_)
BlobSize(s) == IF s = <<>> THEN 0 ELSE ByteLen(Head(s)) + BlobSize(Tail(s))

UpperCase == <<"A", "B", "C", "D", "E", "F", "G", "H", "I", "J", "K", "L", "M",
               "N", "O", "P", "Q", "R", "S", "T", "U", "V", "W", "X", "Y", "Z">>
LowerCase == <<"a", "b", "c", "d", "e", "f", "g", "h", "i", "j", "k", "l", "m",
               "n", "o", "p", "q", "r", "s", "t", "u", "v", "w", "x", "y", "z">>

IsUpper(c) == \E i \in 1..Len(UpperCase) : UpperCase[i] = c

toLowerCase(s) ==
  [i \in 1..Len(s) |->
     IF IsUpper(s[i])
     THEN LowerCase[CHOOSE k \in 1..Len(UpperCase) : UpperCase[k] = s[i]]
     ELSE s[i]]

(* ------------------------- string primitives --------------------------- *)

MinOf(S) == CHOOSE x \in S : \A y \in S : x <= y
MaxOf(S) == CHOOSE x \in S : \A y \in S : x >= y

\* pat occurs in s at position i
MatchAt(s, pat, i) ==
  /\ i >= 1
  /\ i + Len(pat) - 1 <= Len(s)
  /\ SubSeq(s, i, i + Len(pat) - 1) = pat

\* first position >= from where pat occurs in s, 0 when there is none
IndexOf(s, pat, from) ==
  LET I == {i \in from..Len(s) : MatchAt(s, pat, i)}
  IN  IF I = {} THEN 0 ELSE MinOf(I)

Includes(s, pat) == IndexOf(s, pat, 1) # 0

\* first position >= i holding no whitespace, Len(s) + 1 when there is none
SkipSpace(s, i) ==
  LET I == {j \in i..Len(s) : s[j] \notin Whitespace}
  IN  IF I = {} THEN Len(s) + 1 ELSE MinOf(I)

\* String.prototype.trim
trim(s) ==
  LET I == {j \in 1..Len(s) : s[j] \notin Whitespace}
  IN  IF I = {} THEN <<>> ELSE SubSeq(s, MinOf(I), MaxOf(I))

\* String.prototype.split(sep) for a one-character separator
RECURSIVE split(_, _)
split(s, sep) ==
  LET i == IndexOf(s, <<sep>>, 1)
  IN  IF i = 0 THEN <<s>>
      ELSE <<SubSeq(s, 1, i - 1)>> \o split(SubSeq(s, i + 1, Len(s)), sep)

\* Array.prototype.pop: the last element
pop(a) == a[Len(a)]

(* ---------------------- the regex replacements ------------------------- *)

\* s.replace(/open[\s\S]*?close/g, ""), from position i on
RECURSIVE RemoveDelimited(_, _, _, _)
RemoveDelimited(s, open, close, i) ==
  IF i > Len(s) THEN <<>>
  ELSE LET j == IF MatchAt(s, open, i)
                THEN IndexOf(s, close, i + Len(open)) ELSE 0
       IN  IF j # 0
           THEN RemoveDelimited(s, open, close, j + Len(close))
           ELSE <<s[i]>> \o RemoveDelimited(s, open, close, i + 1)

\* s.replace(/\/\*[\s\S]*?\*\//g, "")
RemoveBlockComments(s) == RemoveDelimited(s, <<"/", "*">>, <<"*", "/">>, 1)

\* s.replace(/<!--[\s\S]*?-->/g, "")
RemoveMarkupComments(s) ==
  RemoveDelimited(s, <<"<", "!", "-", "-">>, <<"-", "-", ">">>, 1)

\* s.replace(/\/\/.*$/gm, ""), from position i on
RECURSIVE RemoveLineCommentsFrom(_, _)
RemoveLineCommentsFrom(s, i) ==
  IF i > Len(s) THEN <<>>
  ELSE IF MatchAt(s, <<"/", "/">>, i)
       THEN LET E == {j \in i..Len(s) : s[j] \in LineTerminators}
            IN  RemoveLineCommentsFrom(s, IF E = {} THEN Len(s) + 1 ELSE MinOf(E))
       ELSE <<s[i]>> \o RemoveLineCommentsFrom(s, i + 1)

RemoveLineComments(s) == RemoveLineCommentsFrom(s, 1)

\* s.replace(/\s+/g, " "), from position i on
RECURSIVE CollapseFrom(_, _)
CollapseFrom(s, i) ==
  IF i > Len(s) THEN <<>>
  ELSE IF s[i] \in Whitespace
       THEN <<" ">> \o CollapseFrom(s, SkipSpace(s, i))
       ELSE <<s[i]>> \o CollapseFrom(s, i + 1)

\* mutant: the replacement string typed with two spaces
RECURSIVE CollapseWideFrom(_, _)
CollapseWideFrom(s, i) ==
  IF i > Len(s) THEN <<>>
  ELSE IF s[i] \in Whitespace
       THEN <<" ", " ">> \o CollapseWideFrom(s, SkipSpace(s, i))
       ELSE <<s[i]>> \o CollapseWideFrom(s, i + 1)

CollapseWhitespaceWide(s) == CollapseWideFrom(s, 1)

CollapseWhitespace(s) == CollapseFrom(s, 1)

\* s.replace(/c\s+/g, "c") for one character c, from position i on
RECURSIVE DropSpaceAfterFrom(_, _, _)
DropSpaceAfterFrom(s, c, i) ==
  IF i > Len(s) THEN <<>>
  ELSE IF s[i] = c /\ i < Len(s) /\ s[i + 1] \in Whitespace
       THEN <<c>> \o DropSpaceAfterFrom(s, c, SkipSpace(s, i + 1))
       ELSE <<s[i]>> \o DropSpaceAfterFrom(s, c, i + 1)

DropSpaceAfter(s, c) == DropSpaceAfterFrom(s, c, 1)

\* s.replace(/\s+c/g, "c") for one character c, from position i on
RECURSIVE DropSpaceBeforeFrom(_, _, _)
DropSpaceBeforeFrom(s, c, i) ==
  IF i > Len(s) THEN <<>>
  ELSE IF s[i] \in Whitespace
       THEN LET j == SkipSpace(s, i)
            IN  IF j <= Len(s) /\ s[j] = c
                THEN <<c>> \o DropSpaceBeforeFrom(s, c, j + 1)
                ELSE SubSeq(s, i, j - 1) \o DropSpaceBeforeFrom(s, c, j)
       ELSE <<s[i]>> \o DropSpaceBeforeFrom(s, c, i + 1)

DropSpaceBefore(s, c) == DropSpaceBeforeFrom(s, c, 1)

\* s.replace(/>\s+</g, "><"), from position i on
RECURSIVE DropSpaceBetweenTagsFrom(_, _)
DropSpaceBetweenTagsFrom(s, i) ==
  IF i > Len(s) THEN <<>>
  ELSE LET j == SkipSpace(s, i + 1)
       IN  IF /\ s[i] = ">"
              /\ i < Len(s)
              /\ s[i + 1] \in Whitespace
              /\ j <= Len(s)
              /\ s[j] = "<"
           THEN <<">", "<">> \o DropSpaceBetweenTagsFrom(s, j + 1)
           ELSE <<s[i]>> \o DropSpaceBetweenTagsFrom(s, i + 1)

DropSpaceBetweenTags(s) == DropSpaceBetweenTagsFrom(s, 1)

(* ------------------------------- JSON ---------------------------------- *)
(* JSON.parse and JSON.stringify (ECMA-262 25.5).  A parsed value is a     *)
(* tagged tuple:                                                           *)
(*   <<"null">>  <<"true">>  <<"false">>  <<"str", chars>>                  *)
(*   <<"num", negative, digits, point>>   the double 0.digits * 10^point,  *)
(*                                        digits without leading or        *)
(*                                        trailing zeros (<<>> for zero)   *)
(*   <<"inf", negative>>                  a literal beyond the double range*)
(*   <<"arr", <<v1, ..., vn>> >>                                            *)
(*   <<"obj", <<<<k1, v1>>, ..., <<kn, vn>>>> >>  in property order        *)
(* The texts of the model carry at most 15 significant digits per number,  *)
(* the range in which a double keeps a decimal literal digit for digit.    *)

Digits == <<"0", "1", "2", "3", "4", "5", "6", "7", "8", "9">>

IsDigit(c) == \E d \in 1..Len(Digits) : Digits[d] = c

DigitVal(c) == (CHOOSE d \in 1..Len(Digits) : Digits[d] = c) - 1

\* the whitespace of the JSON grammar
JsonSpace == {" ", "\n", "\t"}

SkipJsonSpace(s, i) ==
  LET I == {j \in i..Len(s) : s[j] \notin JsonSpace}
  IN  IF I = {} THEN Len(s) + 1 ELSE MinOf(I)

\* first position >= i that holds no digit
DigitsEnd(s, i) ==
  LET I == {j \in i..Len(s) : ~IsDigit(s[j])}
  IN  IF I = {} THEN Len(s) + 1 ELSE MinOf(I)

RECURSIVE NatOf(_)
NatOf(ds) ==
  IF ds = <<>> THEN 0 ELSE 10 * NatOf(SubSeq(ds, 1, Len(ds) - 1)) + DigitVal(ds[Len(ds)])

RECURSIVE DigitsOf(_)
DigitsOf(n) ==
  IF n < 10 THEN <<Digits[n + 1]>> ELSE DigitsOf(n \div 10) \o <<Digits[(n % 10) + 1]>>

Zeros(n) == [i \in 1..n |-> "0"]

StripLeadingZeros(ds) ==
  LET I == {j \in 1..Len(ds) : ds[j] # "0"}
  IN  IF I = {} THEN <<>> ELSE SubSeq(ds, MinOf(I), Len(ds))

StripTrailingZeros(ds) ==
  LET I == {j \in 1..Len(ds) : ds[j] # "0"}
  IN  IF I = {} THEN <<>> ELSE SubSeq(ds, 1, MaxOf(I))

\* a < b for digit strings read as the fractions 0.a and 0.b
RECURSIVE FractionLess(_, _)
FractionLess(a, b) ==
  IF b = <<>> THEN FALSE
  ELSE IF a = <<>> THEN StripTrailingZeros(b) # <<>>
  ELSE IF DigitVal(Head(a)) # DigitVal(Head(b)) THEN DigitVal(Head(a)) < DigitVal(Head(b))
  ELSE FractionLess(Tail(a), Tail(b))

\* 2^1024 - 2^970 = 0.179769313486231580793... * 10^309: a literal at or
\* above it rounds to Infinity
OverflowDigits == <<"1", "7", "9", "7", "6", "9", "3", "1", "3", "4", "8", "6",
                    "2", "3", "1", "5", "8", "0", "7", "9", "3">>
OverflowPoint == 309
\* a literal below 0.1 * 10^-323 rounds to zero
UnderflowPoint == 0 - 323

\* the double a number literal denotes: sign, integer digits, fraction
\* digits and decimal exponent
NumberValue(neg, int, frac, exp) ==
  LET all    == int \o frac
      lead   == StripLeadingZeros(all)
      digits == StripTrailingZeros(lead)
      point  == Len(int) - (Len(all) - Len(lead)) + exp
  IN  IF digits = <<>> THEN <<"num", neg, <<>>, 0>>
      ELSE IF point > OverflowPoint
              \/ (point = OverflowPoint /\ ~FractionLess(digits, OverflowDigits))
           THEN <<"inf", neg>>
      ELSE IF point < UnderflowPoint THEN <<"num", neg, <<>>, 0>>
      ELSE <<"num", neg, digits, point>>

Fail == [ok |-> FALSE, v |-> <<>>, i |-> 0]
Ok(v, i) == [ok |-> TRUE, v |-> v, i |-> i]

\* number:  -? (0 | [1-9][0-9]*) (. [0-9]+)? ([eE] [+-]? [0-9]+)?
ParseNumber(s, i) ==
  LET neg  == i <= Len(s) /\ s[i] = "-"
      i0   == IF neg THEN i + 1 ELSE i
      i1   == DigitsEnd(s, i0)
      int  == SubSeq(s, i0, i1 - 1)
      hasF == i1 <= Len(s) /\ s[i1] = "."
      i2   == IF hasF THEN DigitsEnd(s, i1 + 1) ELSE i1
      frac == IF hasF THEN SubSeq(s, i1 + 1, i2 - 1) ELSE <<>>
      hasE == i2 <= Len(s) /\ s[i2] \in {"e", "E"}
      sgn  == hasE /\ i2 + 1 <= Len(s) /\ s[i2 + 1] \in {"+", "-"}
      i3   == IF hasE THEN (IF sgn THEN i2 + 2 ELSE i2 + 1) ELSE i2
      i4   == IF hasE THEN DigitsEnd(s, i3) ELSE i2
      expd == IF hasE THEN SubSeq(s, i3, i4 - 1) ELSE <<>>
      exp  == IF hasE /\ sgn /\ s[i2 + 1] = "-" THEN 0 - NatOf(expd) ELSE NatOf(expd)
  IN  IF \/ int = <<>>
         \/ (Len(int) > 1 /\ int[1] = "0")
         \/ (hasF /\ frac = <<>>)
         \/ (hasE /\ expd = <<>>)
      THEN Fail
      ELSE Ok(NumberValue(neg, int, frac, exp), i4)

\* the characters of a string literal whose opening quote is at i - 1
RECURSIVE ParseChars(_, _, _)
ParseChars(s, i, acc) ==
  IF i > Len(s) THEN Fail
  ELSE IF s[i] = "\"" THEN Ok(<<"str", acc>>, i + 1)
  ELSE IF s[i] \in {"\n", "\t"} THEN Fail
  ELSE IF s[i] = "\\"
       THEN IF i + 1 > Len(s) THEN Fail
            ELSE IF s[i + 1] \in {"\"", "\\", "/"}
                 THEN ParseChars(s, i + 2, Append(acc, s[i + 1]))
            ELSE IF s[i + 1] = "n" THEN ParseChars(s, i + 2, Append(acc, "\n"))
            ELSE IF s[i + 1] = "t" THEN ParseChars(s, i + 2, Append(acc, "\t"))
            ELSE Fail
  ELSE ParseChars(s, i + 1, Append(acc, s[i]))

\* a canonical array index: these keys come first, in numeric order
MaxIndexDigits == <<"4", "2", "9", "4", "9", "6", "7", "2", "9", "4">>

IsArrayIndex(key) ==
  /\ key # <<>>
  /\ \A j \in 1..Len(key) : IsDigit(key[j])
  /\ (Len(key) > 1 => key[1] # "0")
  /\ \/ Len(key) < Len(MaxIndexDigits)
     \/ (Len(key) = Len(MaxIndexDigits) /\ ~FractionLess(MaxIndexDigits, key))

IndexLess(a, b) == Len(a) < Len(b) \/ (Len(a) = Len(b) /\ FractionLess(a, b))

\* CreateDataProperty(obj, key, v) on the members in property order
DefineMember(members, key, v) ==
  LET at == {j \in 1..Len(members) : members[j][1] = key}
      n  == Cardinality({j \in 1..Len(members) :
                           /\ IsArrayIndex(members[j][1])
                           /\ IndexLess(members[j][1], key)})
  IN  IF at # {}
      THEN [j \in 1..Len(members) |-> IF j \in at THEN <<key, v>> ELSE members[j]]
      ELSE IF IsArrayIndex(key)
           THEN SubSeq(members, 1, n) \o <<<<key, v>>>> \o SubSeq(members, n + 1, Len(members))
           ELSE Append(members, <<key, v>>)

RECURSIVE ParseValue(_, _), ParseElements(_, _, _), ParseMembers(_, _, _)

\* value: the JSON value starting at the first non-space position >= i
ParseValue(s, i) ==
  LET j == SkipJsonSpace(s, i)
  IN  IF j > Len(s) THEN Fail
      ELSE IF s[j] = "[" 
           THEN IF SkipJsonSpace(s, j + 1) <= Len(s) /\ s[SkipJsonSpace(s, j + 1)] = "]"
                THEN Ok(<<"arr", <<>>>>, SkipJsonSpace(s, j + 1) + 1)
                ELSE ParseElements(s, j + 1, <<>>)
      ELSE IF s[j] = "{"
           THEN IF SkipJsonSpace(s, j + 1) <= Len(s) /\ s[SkipJsonSpace(s, j + 1)] = "}"
                THEN Ok(<<"obj", <<>>>>, SkipJsonSpace(s, j + 1) + 1)
                ELSE ParseMembers(s, j + 1, <<>>)
      ELSE IF s[j] = "\"" THEN ParseChars(s, j + 1, <<>>)
      ELSE IF MatchAt(s, <<"n", "u", "l", "l">>, j) THEN Ok(<<"null">>, j + 4)
      ELSE IF MatchAt(s, <<"t", "r", "u", "e">>, j) THEN Ok(<<"true">>, j + 4)
      ELSE IF MatchAt(s, <<"f", "a", "l", "s", "e">>, j) THEN Ok(<<"false">>, j + 5)
      ELSE IF s[j] = "-" \/ IsDigit(s[j]) THEN ParseNumber(s, j)
      ELSE Fail

\* elements: value (, value)* ] with the values read so far in acc
ParseElements(s, i, acc) ==
  LET r == ParseValue(s, i)
      j == SkipJsonSpace(s, r.i)
  IN  IF ~r.ok \/ j > Len(s) THEN Fail
      ELSE IF s[j] = "]" THEN Ok(<<"arr", Append(acc, r.v)>>, j + 1)
      ELSE IF s[j] = "," THEN ParseElements(s, j + 1, Append(acc, r.v))
      ELSE Fail

\* members: string : value (, string : value)* } with the members so far in acc
ParseMembers(s, i, acc) ==
  LET k == SkipJsonSpace(s, i)
      key == IF k <= Len(s) /\ s[k] = "\"" THEN ParseChars(s, k + 1, <<>>) ELSE Fail
      c == SkipJsonSpace(s, key.i)
      r == IF key.ok /\ c <= Len(s) /\ s[c] = ":" THEN ParseValue(s, c + 1) ELSE Fail
      j == SkipJsonSpace(s, r.i)
  IN  IF ~r.ok \/ j > Len(s) THEN Fail
      ELSE IF s[j] = "}" THEN Ok(<<"obj", DefineMember(acc, key.v[2], r.v)>>, j + 1)
      ELSE IF s[j] = "," THEN ParseMembers(s, j + 1, DefineMember(acc, key.v[2], r.v))
      ELSE Fail

\* JSON.parse(s): [ok |-> FALSE] stands for the SyntaxError it throws
JSONparse(s) ==
  LET r == ParseValue(s, 1)
  IN  IF r.ok /\ SkipJsonSpace(s, r.i) > Len(s) THEN r ELSE Fail

\* Number::toString of the finite double 0.digits * 10^point
NumberToString(neg, digits, point) ==
  LET k == Len(digits)
      e == point - 1
      body ==
        IF k = 0 THEN <<"0">>
        ELSE IF k <= point /\ point <= 21 THEN digits \o Zeros(point - k)
        ELSE IF 0 < point /\ point <= 21
             THEN SubSeq(digits, 1, point) \o <<".">> \o SubSeq(digits, point + 1, k)
        ELSE IF 0 - 6 < point /\ point <= 0
             THEN <<"0", ".">> \o Zeros(0 - point) \o digits
        ELSE (IF k = 1 THEN digits ELSE <<digits[1], ".">> \o Tail(digits))
             \o <<"e">> \o (IF e < 0 THEN <<"-">> \o DigitsOf(0 - e)
                                     ELSE <<"+">> \o DigitsOf(e))
  IN  IF neg /\ k > 0 THEN <<"-">> \o body ELSE body

\* QuoteJSONString
RECURSIVE QuoteChars(_)
QuoteChars(cs) ==
  IF cs = <<>> THEN <<>>
  ELSE (IF Head(cs) \in {"\"", "\\"} THEN <<"\\", Head(cs)>>
        ELSE IF Head(cs) = "\n" THEN <<"\\", "n">>
        ELSE IF Head(cs) = "\t" THEN <<"\\", "t">>
        ELSE <<Head(cs)>>) \o QuoteChars(Tail(cs))

RECURSIVE Stringify(_), StringifyList(_), StringifyMembers(_)

\* JSON.stringify(v) of a parsed value, no indentation
Stringify(v) ==
  IF v[1] = "num" THEN NumberToString(v[2], v[3], v[4])
  ELSE IF v[1] = "inf" THEN <<"n", "u", "l", "l">>
  ELSE IF v[1] = "str" THEN <<"\"">> \o QuoteChars(v[2]) \o <<"\"">>
  ELSE IF v[1] = "arr" THEN <<"[">> \o StringifyList(v[2]) \o <<"]">>
  ELSE IF v[1] = "obj" THEN <<"{">> \o StringifyMembers(v[2]) \o <<"}">>
  ELSE IF v[1] = "true" THEN <<"t", "r", "u", "e">>
  ELSE IF v[1] = "false" THEN <<"f", "a", "l", "s", "e">>
  ELSE <<"n", "u", "l", "l">>

StringifyList(vs) ==
  IF vs = <<>> THEN <<>>
  ELSE Stringify(Head(vs))
       \o (IF Len(vs) > 1 THEN <<",">> \o StringifyList(Tail(vs)) ELSE <<>>)

StringifyMembers(ms) ==
  IF ms = <<>> THEN <<>>
  ELSE <<"\"">> \o QuoteChars(Head(ms)[1]) \o <<"\"", ":">> \o Stringify(Head(ms)[2])
       \o (IF Len(ms) > 1 THEN <<",">> \o StringifyMembers(Tail(ms)) ELSE <<>>)

(* ------------------------- the core functions -------------------------- *)

\* type FileType
FileTypes == {"html", "css", "json", "js", "jsx"}

fileTypeExtensions ==
  [html |-> <<<<".", "h", "t", "m", "l">>, <<".", "h", "t", "m">>>>,
   css  |-> <<<<".", "c", "s", "s">>>>,
   json |-> <<<<".", "j", "s", "o", "n">>>>,
   js   |-> <<<<".", "j", "s">>>>,
   jsx  |-> <<<<".", "j", "s", "x">>>>]

\* the error of a ValidationResult that carries none
NoError == "(undefined)"

Valid == [isValid |-> TRUE, error |-> NoError]
Invalid(msg) == [isValid |-> FALSE, error |-> msg]

\* /<[^>]+>/.test(s)
HasTag(s) ==
  \E i \in 1..Len(s) :
    /\ s[i] = "<"
    /\ i < Len(s)
    /\ s[i + 1] # ">"
    /\ \E j \in (i + 2)..Len(s) : s[j] = ">"

\* /[^{}]*\{[^{}]*\}/.test(s)
HasRule(s) ==
  \E i \in 1..Len(s) :
    /\ s[i] = "{"
    /\ \E j \in (i + 1)..Len(s) :
         /\ s[j] = "}"
         /\ \A m \in (i + 1)..(j - 1) : s[m] \notin {"{", "}"}

ScriptMarkers ==
  {<<"f", "u", "n", "c", "t", "i", "o", "n">>, <<"c", "o", "n", "s", "t">>,
   <<"l", "e", "t">>, <<"v", "a", "r">>, <<"c", "l", "a", "s", "s">>,
   <<"i", "m", "p", "o", "r", "t">>, <<"e", "x", "p", "o", "r", "t">>, <<"=", ">">>}

\* /(?:function|const|let|var|class|import|export|=>)/.test(s)
HasScriptMarker(s) == \E m \in ScriptMarkers : Includes(s, m)

\* /(?:<[A-Z]|<\/[A-Z])/.test(s)
HasComponentTag(s) ==
  \E i \in 1..Len(s) :
    /\ s[i] = "<"
    /\ \/ (i + 1 <= Len(s) /\ IsUpper(s[i + 1]))
       \/ (i + 2 <= Len(s) /\ s[i + 1] = "/" /\ IsUpper(s[i + 2]))

\* the switch of validateContent, inside its try
ValidateKind(content, type) ==
  IF type = "html"
  THEN IF ~HasTag(content)
       THEN Invalid("Invalid HTML: No valid HTML tags found") ELSE Valid
  ELSE IF type = "css"
       THEN IF ~HasRule(RemoveBlockComments(content))
            THEN Invalid("Invalid CSS: No valid CSS rules found") ELSE Valid
  ELSE IF type = "json"
       THEN IF ~JSONparse(content).ok
            THEN Invalid("Invalid JSON: (message of the SyntaxError)") ELSE Valid
  ELSE IF type = "js"
       THEN IF ~HasScriptMarker(content)
            THEN Invalid("Invalid JS: No valid JavaScript syntax found") ELSE Valid
  ELSE IF ~(HasScriptMarker(content) \/ HasComponentTag(content))
       THEN Invalid("Invalid JSX: No valid JSX syntax found") ELSE Valid

\* mutant: the check for empty content left out
validateContentNoEmptyCheck(content, type) == ValidateKind(content, type)

validateContent(content, type) ==
  IF trim(content) = <<>> THEN Invalid("Content cannot be empty")
  ELSE ValidateKind(content, type)

\* what a call returns: its value, or that it threw
Returned(text) == [threw |-> FALSE, minified |-> text]
Threw == [threw |-> TRUE, minified |-> <<>>]

MinifyMarkup(content) ==
  trim(DropSpaceBetweenTags(CollapseWhitespace(RemoveMarkupComments(content))))

MinifyStylesheet(content) ==
  trim(DropSpaceBefore(DropSpaceAfter(DropSpaceAfter(
         CollapseWhitespace(RemoveBlockComments(content)), ";"), "{"), "}"))

MinifyStructuredData(content) ==
  IF JSONparse(content).ok THEN Returned(Stringify(JSONparse(content).v)) ELSE Threw

MinifyScript(content) ==
  trim(DropSpaceBefore(DropSpaceAfter(DropSpaceAfter(
         CollapseWhitespace(RemoveBlockComments(RemoveLineComments(content))),
         ";"), "{"), "}"))

mockMinify(content, type) ==
  IF type = "html" THEN Returned(MinifyMarkup(content))
  ELSE IF type = "css" THEN Returned(MinifyStylesheet(content))
  ELSE IF type = "json" THEN MinifyStructuredData(content)
  ELSE Returned(MinifyScript(content))

RECURSIVE GCD(_, _)
GCD(a, b) == IF b = 0 THEN a ELSE GCD(b, a % b)

Abs(n) == IF n < 0 THEN 0 - n ELSE n

\* a JavaScript number that is an integer, or NaN
Number(n) == [isNaN |-> FALSE, value |-> n]
NaN == [isNaN |-> TRUE, value |-> 0]

(* Math.round(((originalSize - minifiedSize) / originalSize) * 100): the   *)
(* values it can take.  Math.round rounds a half up.  The quotient is a    *)
(* double: when the exact percentage is k + 1/2 and the quotient is not a  *)
(* multiple of 1/8 the product lands on k + 1/2 or just beside it          *)
(* (0.025 * 100 is 2.5, 0.575 * 100 is 57.49999999999999), so either       *)
(* neighbour can come out.  0 / 0 is NaN.                                  *)
RoundedExactly(originalSize, minifiedSize) ==
  LET num  == 100 * (originalSize - minifiedSize)
      up   == (2 * num + originalSize) \div (2 * originalSize)
      tie  == (2 * num + originalSize) % (2 * originalSize) = 0
      den  == originalSize \div GCD(Abs(originalSize - minifiedSize), originalSize)
  IN  IF originalSize = 0 THEN {NaN}
      ELSE IF tie /\ den # 8 THEN {Number(up - 1), Number(up)}
      ELSE {Number(up)}

\* mutant: a negative percentage clamped to zero
RoundedPercentagesClamped(originalSize, minifiedSize) ==
  {IF p.value < 0 THEN Number(0) ELSE p : p \in RoundedExactly(originalSize, minifiedSize)}

RoundedPercentages(originalSize, minifiedSize) ==
  RoundedExactly(originalSize, minifiedSize)

\* the MinificationResult records handleMinify can build from a minified text
Reports(inputCode, minified) ==
  {[minified            |-> minified,
    originalSize        |-> BlobSize(inputCode),
    minifiedSize        |-> BlobSize(minified),
    reductionPercentage |-> p] :
      p \in RoundedPercentages(BlobSize(inputCode), BlobSize(minified))}

(* --------------------------- the component ----------------------------- *)

VARIABLES
  inputMethod,          \* "paste" or "upload": the open tab
  selectedFileType,
  inputCode,
  fileName,
  validation,
  minificationResult,   \* <<>> for null, <<r>> for the result r
  isProcessing,
  readers,              \* FileReader loads under way: the file and the
                        \* selectedFileType their onload callback closed over
  timers,               \* handleMinify calls waiting in their 1500 ms delay:
                        \* the inputCode and selectedFileType they closed over
  event,                \* history: the handler that ran last and its arguments
  request,              \* the core alone: the text and kind handed to it,
  stage,                \* how far it got,
  verdict,              \* the verdict of validateContent,
  report,               \* <<>> or <<r>>, r the report of the first pass,
  again                 \* <<>> or <<t>>, t the minified text minified again

uiVars == <<inputMethod, selectedFileType, inputCode, fileName, validation,
            minificationResult, isProcessing, readers, timers, event>>
coreVars == <<request, stage, verdict, report, again>>
vars == <<uiVars, coreVars>>

Event(op, content, type, name) ==
  [op |-> op, content |-> content, type |-> type, name |-> name]

\* a handler whose arguments the history does not keep
Ran(op) == Event(op, <<>>, "", <<>>)

\* texts the textarea hands to handleCodeChange
PasteTexts ==
  {<<"=", ">">>, <<"=", ">", " ">>, <<"{", "}">>, <<"1", "e", "9">>, <<" ">>,
   <<"<", "a", ">">>, <<"=", ">", BigRun>>}

\* the File objects the file input can deliver, [name, content]
Files ==
  {[name |-> <<"a", ".", "j", "s">>, content |-> <<"=", ">">>],
   [name |-> <<"j", "s">>,           content |-> <<"=", ">">>],
   [name |-> <<"A", ".", "J", "S">>, content |-> <<"{", "}">>],
   [name |-> <<"a", ".", "t", "x", "t">>, content |-> <<"=", ">">>],
   [name |-> <<"a", ".", "j", "s">>, content |-> <<"=", ">", BigRun>>]}

\* File.size
FileSize(file) == BlobSize(file.content)

InitUI ==
  /\ inputMethod = "paste"
  /\ selectedFileType = "js"
  /\ inputCode = <<>>
  /\ fileName = <<>>
  /\ validation = [isValid |-> FALSE, error |-> NoError]
  /\ minificationResult = <<>>
  /\ isProcessing = FALSE
  /\ readers = <<>>
  /\ timers = <<>>
  /\ event = Ran("init")

IdleCore ==
  /\ request = [content |-> <<>>, type |-> "js"]
  /\ stage = "idle"
  /\ verdict = [isValid |-> FALSE, error |-> NoError]
  /\ report = <<>>
  /\ again = <<>>

Init == InitUI /\ IdleCore

\* Tabs onValueChange: setInputMethod
SetInputMethod(value) ==
  /\ value # inputMethod
  /\ inputMethod' = value
  /\ event' = Ran("setInputMethod")
  /\ UNCHANGED <<selectedFileType, inputCode, fileName, validation,
                 minificationResult, isProcessing, readers, timers>>

handleCodeChange(value) ==
  /\ inputCode' = value
  /\ validation' = IF inputMethod = "paste"
                   THEN validateContent(value, selectedFileType)
                   ELSE validation
  /\ event' = Ran("handleCodeChange")
  /\ UNCHANGED <<inputMethod, selectedFileType, fileName, minificationResult,
                 isProcessing, readers, timers>>

\* the Textarea lives in the "paste" tab
CodeChange ==
  /\ inputMethod = "paste"
  /\ \E value \in PasteTexts : handleCodeChange(value)

handleFileTypeChange(type) ==
  /\ selectedFileType' = type
  /\ inputCode' = <<>>
  /\ fileName' = <<>>
  /\ validation' = [isValid |-> FALSE, error |-> NoError]
  /\ minificationResult' = <<>>
  /\ event' = Ran("handleFileTypeChange")
  /\ UNCHANGED <<inputMethod, isProcessing, readers, timers>>

FileTypeChange == \E type \in FileTypes : handleFileTypeChange(type)

\* "." + file.name.split(".").pop()?.toLowerCase()
FileExtension(name) == <<".">> \o toLowerCase(pop(split(name, ".")))

\* validExtensions.includes(fileExtension)
ExtensionIncluded(type, ext) ==
  \E i \in 1..Len(fileTypeExtensions[type]) : fileTypeExtensions[type][i] = ext

SizeLimit == 1024 * 1024

\* the message names the extension found; the model keeps the rest of it
MismatchError(type) ==
  IF type = "html" THEN "File extension does not match selected type HTML. Expected: .html, .htm"
  ELSE IF type = "css" THEN "File extension does not match selected type CSS. Expected: .css"
  ELSE IF type = "json" THEN "File extension does not match selected type JSON. Expected: .json"
  ELSE IF type = "js" THEN "File extension does not match selected type JS. Expected: .js"
  ELSE "File extension does not match selected type JSX. Expected: .jsx"

handleFileUpload(file) ==
  /\ event' = Event("handleFileUpload", file.content, selectedFileType, file.name)
  /\ IF FileSize(file) > SizeLimit
     THEN /\ validation' = Invalid("File size exceeds 1MB limit")
          /\ UNCHANGED <<fileName, readers>>
     ELSE IF ~ExtensionIncluded(selectedFileType, FileExtension(file.name))
          THEN /\ validation' = Invalid(MismatchError(selectedFileType))
               /\ UNCHANGED <<fileName, readers>>
          ELSE /\ Len(readers) < MaxReaders
               /\ fileName' = file.name
               /\ readers' = Append(readers, [file |-> file, type |-> selectedFileType])
               /\ UNCHANGED validation
  /\ UNCHANGED <<inputMethod, selectedFileType, inputCode, minificationResult,
                 isProcessing, timers>>

\* the file input lives in the "upload" tab
FileUpload ==
  /\ inputMethod = "upload"
  /\ \E file \in Files : handleFileUpload(file)

\* if (!file) return: the dialog was cancelled
FileUploadNone ==
  /\ inputMethod = "upload"
  /\ event' = Ran("handleFileUpload")
  /\ UNCHANGED <<inputMethod, selectedFileType, inputCode, fileName, validation,
                 minificationResult, isProcessing, readers, timers>>

Without(q, i) == SubSeq(q, 1, i - 1) \o SubSeq(q, i + 1, Len(q))

\* reader.onload of the i-th load under way
ReaderOnload(i) ==
  /\ inputCode' = readers[i].file.content
  /\ validation' = validateContent(readers[i].file.content, readers[i].type)
  /\ readers' = Without(readers, i)
  /\ event' = Event("onload", readers[i].file.content, readers[i].type,
                    readers[i].file.name)
  /\ UNCHANGED <<inputMethod, selectedFileType, fileName, minificationResult,
                 isProcessing, timers>>

FileLoaded == \E i \in 1..Len(readers) : ReaderOnload(i)

\* mutant: the early return of handleMinify left out
handleMinifyUnguarded ==
  /\ event' = Ran("handleMinify")
  /\ isProcessing' = TRUE
  /\ timers' = Append(timers, [inputCode |-> inputCode,
                               selectedFileType |-> selectedFileType])
  /\ UNCHANGED <<inputMethod, selectedFileType, inputCode, fileName, validation,
                 minificationResult, readers>>

\* handleMinify up to its await
handleMinify ==
  /\ event' = Ran("handleMinify")
  /\ IF ~validation.isValid \/ trim(inputCode) = <<>>
     THEN UNCHANGED <<isProcessing, timers>>
     ELSE /\ isProcessing' = TRUE
          /\ timers' = Append(timers, [inputCode |-> inputCode,
                                       selectedFileType |-> selectedFileType])
  /\ UNCHANGED <<inputMethod, selectedFileType, inputCode, fileName, validation,
                 minificationResult, readers>>

\* the Button: disabled={!validation.isValid || isProcessing}
\* the button without its disabled attribute
MinifyClickEnabled == handleMinify

MinifyClick ==
  /\ ~(~validation.isValid \/ isProcessing)
  /\ handleMinify

\* handleMinify called while the verdict is invalid, past the disabled button
MinifyRequestInvalid ==
  /\ ~validation.isValid
  /\ handleMinify

\* handleMinify after its await, for the i-th call waiting
MinifyResume(i) ==
  LET c == timers[i]
      r == mockMinify(c.inputCode, c.selectedFileType)
  IN  /\ timers' = Without(timers, i)
      /\ event' = Event("mockMinify", c.inputCode, c.selectedFileType, <<>>)
      /\ IF r.threw
         THEN UNCHANGED <<minificationResult, isProcessing>>
         ELSE /\ \E result \in Reports(c.inputCode, r.minified) :
                   minificationResult' = <<result>>
              /\ isProcessing' = FALSE
      /\ UNCHANGED <<inputMethod, selectedFileType, inputCode, fileName,
                     validation, readers>>

MinifyDelayOver == \E i \in 1..Len(timers) : MinifyResume(i)

\* a step of the component: the core stays idle
UI(A) == A /\ UNCHANGED coreVars

Next ==
  \/ UI(\E value \in {"paste", "upload"} : SetInputMethod(value))
  \/ UI(CodeChange)
  \/ UI(FileTypeChange)
  \/ UI(FileUpload)
  \/ UI(FileUploadNone)
  \/ UI(FileLoaded)
  \/ UI(MinifyClick)
  \/ UI(MinifyDelayOver)

Spec == Init /\ [][Next]_vars

NextRequest ==
  \/ Next
  \/ UI(MinifyRequestInvalid)

SpecRequest == Init /\ [][NextRequest]_vars

(* ---------------------------- the core alone --------------------------- *)
(* validateContent, mockMinify and the report of handleMinify applied to   *)
(* one text of one kind: every text up to MaxLen characters over the       *)
(* characters that matter to the kind, and the fixtures below.             *)

Alphabet ==
  [html |-> {"<", ">", "!", "-", " ", "a"},
   css  |-> {"/", "*", " ", "{", "}", ";", "é"},
   json |-> {"[", "]", ",", " ", "0", "1", "9", "e"},
   js   |-> {"/", "*", " ", "\n", "{", "}", ";", "=", ">"},
   jsx  |-> {"<", "/", "A", "a", " ", "=", ">", "}"}]

TextsOver(A) == UNION {[1..n -> A] : n \in 0..MaxLen}

\* "//not a comment" as a string literal
NotAComment ==
  <<"\"", "/", "/", "n", "o", "t", " ", "a", " ", "c", "o", "m", "m", "e", "n", "t", "\"">>

Spaces(n) == [i \in 1..n |-> " "]

Fixtures ==
  [html |-> {<<"<", "d", "i", "v", ">", " ", " ", "<", "p", ">", "H", "i", "<", "/", "p", ">",
               " ", " ", "<", "/", "d", "i", "v", ">">>,
             <<"<", "!", "-", "<", "!", "-", "-", "-", "-", ">", "-", ">">>,
             <<BigRun, BigRun>>},
   css  |-> {<<".", "a", " ", "{", " ", "c", "o", "l", "o", "r", ":", " ", "r", "e", "d", ";",
               " ", "/", "*", " ", "n", "o", "t", "e", " ", "*", "/", " ", "}">>,
             <<"{", "}", "/", "/", "*", "*", "/", "*", "*", "/">>,
             <<BigRun, BigRun>>},
   json |-> {<<"{", "\"", "a", "\"", ":", " ", "1", ",", " ", "\"", "b", "\"", ":", " ",
               "[", "1", ",", "2", ",", "3", "]", "}">>,
             <<"1", "e", "9", "9", "9">>,
             <<BigRun, BigRun>>},
   js   |-> {<<"c", "o", "n", "s", "t", " ", "x", " ", "=", " ", "1", ";">>,
             <<"p", "l", "a", "i", "n", " ", "p", "r", "o", "s", "e", " ", "w", "i", "t", "h",
               " ", "n", "o", " ", "c", "o", "d", "e">>,
             <<"c", "o", "n", "s", "t", " ", "s", "=">> \o NotAComment \o <<";">>,
             <<"=", ">", " ", " ", "a", "{", "}", "x">>,
             <<"x", "=", ">">> \o Spaces(24)
               \o <<"a", "b", "c", "d", "e", "f", "g", "h", "i", "j", "k", "l", "m">>,
             <<"a", " ", "v", "a", "r", "i", "a", "b", "l", "e">>,
             <<"=", ">", BigRun, BigRun>>},
   jsx  |-> {<<"<", "A", "p", "p", " ", "/", ">">>,
             <<"a", " ", "l", "e", "t", "t", "e", "r">>,
             <<BigRun, BigRun>>}]

Requests ==
  UNION {[content : TextsOver(Alphabet[t]) \cup Fixtures[t], type : {t}] : t \in FileTypes}

InitCore ==
  /\ InitUI
  /\ request \in Requests
  /\ stage = "given"
  /\ verdict = [isValid |-> FALSE, error |-> NoError]
  /\ report = <<>>
  /\ again = <<>>

\* validate(text, kind)
CoreValidate ==
  /\ stage = "given"
  /\ verdict' = validateContent(request.content, request.type)
  /\ stage' = "validated"
  /\ UNCHANGED <<request, report, again>>

\* handleMinify without its delay: the guard, mockMinify, the report
CoreMinify ==
  /\ stage = "validated"
  /\ ~(~verdict.isValid \/ trim(request.content) = <<>>)
  /\ LET r == mockMinify(request.content, request.type)
     IN  IF r.threw
         THEN stage' = "threw" /\ UNCHANGED report
         ELSE /\ stage' = "minified"
              /\ \E result \in Reports(request.content, r.minified) :
                   report' = <<result>>
  /\ UNCHANGED <<request, verdict, again>>

\* mockMinify on its own output
CoreMinifyAgain ==
  /\ stage = "minified"
  /\ again' = <<mockMinify(report[1].minified, request.type)>>
  /\ stage' = "reminified"
  /\ UNCHANGED <<request, verdict, report>>

NextCore ==
  \/ (CoreValidate /\ UNCHANGED uiVars)
  \/ (CoreMinify /\ UNCHANGED uiVars)
  \/ (CoreMinifyAgain /\ UNCHANGED uiVars)

SpecCore == InitCore /\ [][NextCore]_vars

Minified == stage \in {"minified", "reminified"}

(* ------------------------------ the claims ----------------------------- *)

\* every character of s is whitespace
IsBlank(s) == \A i \in 1..Len(s) : s[i] \in Whitespace

EndsWith(s, suffix) ==
  /\ Len(s) >= Len(suffix)
  /\ SubSeq(s, Len(s) - Len(suffix) + 1, Len(s)) = suffix

\* name ends with one of the suffixes of the kind
NameMatchesKind(name, type) ==
  \E i \in 1..Len(fileTypeExtensions[type]) : EndsWith(name, fileTypeExtensions[type][i])

\* C1: whenever mockMinify(content, type) is invoked, validateContent(content,
\* type) is valid, under every interleaving of the handlers and callbacks.
C1_MinifyOnlyValidated ==
  event.op = "mockMinify" => validateContent(event.content, event.type).isValid

\* C2: a call of handleMinify made while the verdict is invalid or the input
\* is blank changes no state variable: no processing starts, no result is set.
C2_RejectedRequestChangesNothing ==
  [][(event'.op = "handleMinify" /\ (~validation.isValid \/ IsBlank(inputCode)))
       => UNCHANGED <<inputMethod, selectedFileType, inputCode, fileName, validation,
                      minificationResult, isProcessing, readers, timers>>]_vars

\* C2 witness: handleMinify has just run on a non-empty input with an invalid
\* verdict, and nothing is in progress.
C2_Witness ==
  /\ event.op = "handleMinify"
  /\ ~validation.isValid
  /\ inputCode # <<>>
  /\ ~isProcessing
  /\ timers = <<>>

\* C3 as claimed: empty or whitespace-only text of any kind is invalid with
\* reason "empty input".
C3_EmptyInputReason ==
  (stage = "validated" /\ IsBlank(request.content))
    => (~verdict.isValid /\ verdict.error = "empty input")

\* C3 as amended: empty or whitespace-only text of any kind is invalid with
\* the error "Content cannot be empty".
C3_EmptyContentError ==
  (stage = "validated" /\ IsBlank(request.content))
    => (~verdict.isValid /\ verdict.error = "Content cannot be empty")

\* C3 witness: a whitespace-only text of a kind other than Script was validated.
C3_Witness ==
  /\ stage = "validated"
  /\ request.content # <<>>
  /\ IsBlank(request.content)
  /\ request.type = "json"

\* C4: a valid verdict implies the current input is at most 1 MiB, and no
\* text above 1 MiB is ever minified, however the text came in.
C4_ValidWithinLimit ==
  /\ validation.isValid => BlobSize(inputCode) <= SizeLimit
  /\ event.op = "mockMinify" => BlobSize(event.content) <= SizeLimit

\* C5: minifying the minified text again, under the same kind, gives the same
\* text.
C5_Idempotent ==
  stage = "reminified"
    => (~again[1].threw /\ again[1].minified = report[1].minified)

\* C6: a Script or ScriptWithMarkup text holding the string literal
\* "//not a comment" keeps that literal in its minified text.
C6_StringLiteralKept ==
  (Minified /\ request.type \in {"js", "jsx"} /\ Includes(request.content, NotAComment))
    => Includes(report[1].minified, NotAComment)

\* C7: for Script, ScriptWithMarkup, Stylesheet and Markup the reported
\* minifiedSize is at most the reported originalSize, both in UTF-8 bytes.
C7_NeverGrows ==
  (Minified /\ request.type \in {"js", "jsx", "css", "html"})
    => report[1].minifiedSize <= report[1].originalSize

\* C7 witness: a Stylesheet text with a two-byte character was minified to a
\* shorter text.
C7_Witness ==
  /\ Minified
  /\ request.type = "css"
  /\ \E i \in 1..Len(request.content) : ByteLen(request.content[i]) > 1
  /\ report[1].originalSize > Len(request.content)
  /\ report[1].minifiedSize < report[1].originalSize

\* C8: for valid StructuredData the minified text parses to the value the
\* original text parses to.
C8_ParsePreserved ==
  (Minified /\ request.type = "json")
    => /\ JSONparse(report[1].minified).ok
       /\ JSONparse(report[1].minified).v = JSONparse(request.content).v

C10_LoadedOnlyWithSuffix ==
  event.op = "onload" => NameMatchesKind(event.name, event.type)

\* the fixture .a { color: red; /* note */ } and the text expected for it
StylesheetFixture ==
  <<".", "a", " ", "{", " ", "c", "o", "l", "o", "r", ":", " ", "r", "e", "d", ";",
    " ", "/", "*", " ", "n", "o", "t", "e", " ", "*", "/", " ", "}">>
StylesheetExpected ==
  <<".", "a", "{", "c", "o", "l", "o", "r", ":", "r", "e", "d", ";", "}">>

StructuralPunctuation == {"{", "}", ";", ":", ","}

\* no whitespace directly before or after a structural character of s
\* (the texts of the model hold no string literal under Stylesheet)
NoSpaceAroundPunctuation(s) ==
  \A i \in 1..Len(s) :
    s[i] \in StructuralPunctuation
      => /\ (i > 1 => s[i - 1] \notin Whitespace)
         /\ (i < Len(s) => s[i + 1] \notin Whitespace)

\* C11: a minified Stylesheet text has no whitespace next to { } ; : , and
\* the fixture .a { color: red; /* note */ } minifies to .a{color:red;}
C11_StylesheetCompact ==
  (Minified /\ request.type = "css")
    => /\ NoSpaceAroundPunctuation(report[1].minified)
       /\ request.content = StylesheetFixture
            => report[1].minified = StylesheetExpected

\* a character that can continue an identifier
IsIdentChar(c) ==
  \/ IsUpper(c)
  \/ \E i \in 1..Len(LowerCase) : LowerCase[i] = c
  \/ IsDigit(c)
  \/ c \in {"_", "$", BigRun}

\* marker m stands in s at position i as a token of its own
MarkerTokenAt(s, m, i) ==
  /\ MatchAt(s, m, i)
  /\ \/ m = <<"=", ">">>
     \/ /\ (i > 1 => ~IsIdentChar(s[i - 1]))
        /\ (i + Len(m) <= Len(s) => ~IsIdentChar(s[i + Len(m)]))

HasMarkerToken(s) ==
  \E m \in ScriptMarkers : \E i \in 1..Len(s) : MarkerTokenAt(s, m, i)

\* C12: a Script text is valid only if one of function, const, let, var,
\* class, import, export, => stands in it as a token; a ScriptWithMarkup text
\* only if such a token or a capitalized tag stands in it.
C12_ValidOnlyWithMarkerToken ==
  (stage = "validated" /\ request.type \in {"js", "jsx"} /\ verdict.isValid)
    => \/ HasMarkerToken(request.content)
       \/ (request.type = "jsx" /\ HasComponentTag(request.content))

\* the braces of s are balanced: none closes what was not opened, none stays open
RECURSIVE BalancedFrom(_, _, _)
BalancedFrom(s, i, depth) ==
  IF i > Len(s) THEN depth = 0
  ELSE IF s[i] = "{" THEN BalancedFrom(s, i + 1, depth + 1)
  ELSE IF s[i] = "}" THEN depth > 0 /\ BalancedFrom(s, i + 1, depth - 1)
  ELSE BalancedFrom(s, i + 1, depth)

Balanced(s) == BalancedFrom(s, 1, 0)

\* C13: a non-blank Stylesheet text is valid iff, comments stripped, it has a
\* selector { declarations } span and balanced braces; with unbalanced braces
\* it is invalid with reason "unbalanced braces".
C13_StylesheetBalanced ==
  (stage = "validated" /\ request.type = "css" /\ ~IsBlank(request.content))
    => /\ verdict.isValid
            <=> /\ HasRule(RemoveBlockComments(request.content))
                /\ Balanced(RemoveBlockComments(request.content))
       /\ ~Balanced(RemoveBlockComments(request.content))
            => (~verdict.isValid /\ verdict.error = "unbalanced braces")

\* C14: a minify that has started completes: while isProcessing is true its
\* continuation is still pending, so isProcessing returns to false.
C14_ProcessingCompletes == isProcessing => timers # <<>>

\* C15: a result stored by a minify was produced under the kind that is
\* selected when it is stored.
C15_ResultOfSelectedType ==
  (event.op = "mockMinify" /\ minificationResult # <<>>)
    => event.type = selectedFileType

\* C16: in every state the stored verdict is valid exactly when
\* validateContent of the current text under the selected kind is valid.
C16_VerdictAgrees ==
  validation.isValid = validateContent(inputCode, selectedFileType).isValid

\* C17: a minify starts only while none is in flight and isProcessing is
\* false, and starting it sets isProcessing.
C17_OneInFlight ==
  [][Len(timers') > Len(timers)
       => (timers = <<>> /\ ~isProcessing /\ isProcessing')]_vars

C17_Witness ==
  event.op = "handleMinify" /\ Len(timers) = 1 /\ isProcessing

====
